---- MODULE Spec2Model ----
(***************************************************************************)
(* Model of the workbook state layer (workbook.ts): the workbook registry, *)
(* the CRUD orchestration of queries / charts / dashboards, the share      *)
(* permission mapping, the auto-save controller and the linked-query       *)
(* resolver.                                                               *)
(***************************************************************************)
EXTENDS Integers, Sequences, FiniteSets, TLC

(* ------------------------------------------------------------------ *)
(* Bounds                                                               *)
(* ------------------------------------------------------------------ *)
NumQueries == 3
MaxTotalOps == 2

MaxEntities == 2
MaxRequests == 2
MaxPerms == 1
MaxOrphans == 1
MaxInFlight == 2
MaxLoaded == 3

Queries == 1..NumQueries

\* Call-stack capacity of the engine.  A chain of distinct queries is at most
\* NumQueries frames deep, so only a re-entered query can exceed it.
StackLimit == NumQueries + 1

VARIABLES
    \* ---- linked-query resolver ----
    operations,       \* query -> its stored operation list (query.currentOperations)
    activeEditIndex,  \* query -> index being edited, -1 when none
    stack,            \* call stack of getLinkedQueries frames
    lqState,          \* "idle" | "running" | "done" | "overflow"
    lqRoot,           \* the query the outermost call was made for
    lqResult,         \* the array returned by the outermost call
    \* ---- workbook registry ----
    workbooks,        \* the Map: key -> workbook instance (0 when absent)
    nextInstance,     \* identity of the next object makeWorkbook creates
    makeCount,        \* key -> number of makeWorkbook runs
    returned,         \* key -> instances useWorkbook has returned for it
    lastUse,          \* the latest useWorkbook call: its key and whether the Map had it
    \* ---- CRUD orchestration of the workbook named WbName ----
    doc,              \* workbook.doc: kind -> list of references
    route,            \* router.currentRoute
    nextName,         \* next document name the backend hands out
    pendingInserts,   \* insert() calls in flight
    nextRequest,      \* identity of the next confirmDialog request
    dialogs,          \* open confirmation dialogs
    confirmed,        \* requests whose onSuccess has fired
    pendingDeletes,   \* delete() calls in flight
    stored,           \* the documents of the remote store: inserted and not deleted
    \* ---- share permissions ----
    shareArgs,        \* args of the updateSharePermissions call in flight
    shareSent,        \* user_permissions payload of that call
    sharePromise,     \* "none" | "pending" | "resolved" | "rejected"
    shareOutcome,     \* "none" | "ok" | "error": how the remote call ended
    shareToasts,      \* showErrorToast invocations for that call
    shareFetched,     \* last result of getSharePermissions
    \* ---- auto-save controller ----
    enable_auto_save,     \* workbook.doc.enable_auto_save
    seenAutoSave,         \* the value the enable_auto_save watcher last ran for
    isdirty,              \* workbook.isdirty
    pauseAutoSave,        \* _pauseAutoSave.value
    stopAutoSaveWatcher,  \* TRUE while it holds the stop handle of a live watcher
    watched,              \* the source value the live watcher saw last
    timer,                \* debounce timer of the live watcher: "none" | "true" | "false"
    orphanTimers,         \* pending debounce timers of stopped watchers, oldest first
    savesFresh,           \* save() calls in flight that carry the current document
    savesStale,           \* save() calls in flight started before the latest edit
    lastAutoSave,         \* what held when auto-save last called workbook.save()
    attempted,            \* auto-save called save() since the workbook last had to be saved
    cycle,                \* "first" | "stopped" | "reenabled": the watcher's history
    watchers              \* number of debounced watchers created and not stopped

lqVars == <<operations, activeEditIndex, stack, lqState, lqRoot, lqResult>>
regVars == <<workbooks, nextInstance, makeCount, returned, lastUse>>
crudVars == <<doc, route, nextName, pendingInserts, nextRequest, dialogs,
              confirmed, pendingDeletes, stored>>
shareVars == <<shareArgs, shareSent, sharePromise, shareOutcome, shareToasts,
               shareFetched>>

asVars == <<enable_auto_save, seenAutoSave, isdirty, pauseAutoSave,
            stopAutoSaveWatcher, watched, timer, orphanTimers, savesFresh,
            savesStale, lastAutoSave, attempted, cycle, watchers>>

vars == <<lqVars, regVars, crudVars, shareVars, asVars>>

(* ------------------------------------------------------------------ *)
(* Linked-query resolver                                                *)
(* ------------------------------------------------------------------ *)
\* An operation either has no table, a plain table, or a query used as table.
NoTableOp == [hasTable |-> FALSE, table_type |-> "none", query_name |-> 0]
TableOp == [hasTable |-> TRUE, table_type |-> "table", query_name |-> 0]
QueryOp(q) == [hasTable |-> TRUE, table_type |-> "query", query_name |-> q]

Operation == {NoTableOp, TableOp} \cup {QueryOp(q) : q \in Queries}

\* A query with k operations: its operation list and its activeEditIndex, -1
\* or the index of one of its operations.
QueryStates(k) ==
    UNION {[operations : {s}, activeEditIndex : -1..(k - 1)] : s \in [1..k -> Operation]}

RECURSIVE QueryGraphs(_, _)
\* Every assignment of states to the queries 1..n that holds at most budget
\* operations in total.
QueryGraphs(n, budget) ==
    IF n = 0 THEN {<<>>}
    ELSE UNION {{Append(g, s) : g \in QueryGraphs(n - 1, budget - k), s \in QueryStates(k)} :
                k \in 0..budget}

SpliceAfter(ops, i) == SubSeq(ops, 1, IF i + 1 < Len(ops) THEN i + 1 ELSE Len(ops))

\* operations.splice(i): drops the elements from index i to the end.
SpliceFrom(ops, i) == SubSeq(ops, 1, IF i < Len(ops) THEN i ELSE Len(ops))

\* copy(query.currentOperations), cut at activeEditIndex when it is > -1.
EffectiveOperations(q) ==
    IF activeEditIndex[q] > -1
    THEN SpliceFrom(operations[q], activeEditIndex[q])
    ELSE operations[q]

IsQueryRef(op) == op.hasTable /\ op.table_type = "query"

SetAddKeepingDuplicates(s, x) == Append(s, x)

\* Set.add on an insertion-ordered set kept as a duplicate-free sequence.
SetAdd(s, x) == IF \E i \in 1..Len(s) : s[i] = x THEN s ELSE Append(s, x)

RECURSIVE SetAddAll(_, _)
SetAddAllInFront(s, xs) ==
    SelectSeq(xs, LAMBDA x : ~\E i \in 1..Len(s) : s[i] = x) \o s

\* getLinkedQueries(q).forEach((q) => linkedQueries.add(q))
SetAddAll(s, xs) ==
    IF xs = <<>> THEN s ELSE SetAddAll(SetAdd(s, Head(xs)), Tail(xs))

RECURSIVE DirectLinks(_, _)
\* operations.forEach(op => if op is a query reference, linkedQueries.add(...))
DirectLinks(ops, acc) ==
    IF ops = <<>> THEN acc
    ELSE DirectLinks(Tail(ops),
                     IF IsQueryRef(Head(ops)) THEN SetAdd(acc, Head(ops).query_name)
                     ELSE acc)

\* The frame a call getLinkedQueries(q) starts with: a fresh Set holding the
\* direct references, and the forEach cursor before its first element.
NewFrame(q) == [q |-> q, linked |-> DirectLinks(EffectiveOperations(q), <<>>), i |-> 0]

\* getLinkedQueries(query_name) called from outside.
LQ_Call(q) ==
    /\ lqState = "idle"
    /\ lqState' = "running"
    /\ lqRoot' = q
    /\ stack' = <<NewFrame(q)>>
    /\ UNCHANGED <<operations, activeEditIndex, lqResult>>
    /\ UNCHANGED <<regVars, crudVars, shareVars, asVars>>

\* linkedQueries.forEach(q => getLinkedQueries(q)...): the recursive call for
\* the next element of the set.  Exceeding the stack capacity throws.
LQ_Recurse ==
    /\ lqState = "running"
    /\ LET top == stack[Len(stack)] IN
        /\ top.i < Len(top.linked)
        /\ IF Len(stack) >= StackLimit
           THEN /\ lqState' = "overflow"
                /\ stack' = <<>>
           ELSE /\ stack' = Append(stack, NewFrame(top.linked[top.i + 1]))
                /\ lqState' = lqState
    /\ UNCHANGED <<operations, activeEditIndex, lqRoot, lqResult>>
    /\ UNCHANGED <<regVars, crudVars, shareVars, asVars>>

\* return Array.from(linkedQueries); the caller adds every returned element
\* to its own set and moves its forEach cursor on.
LQ_Return ==
    /\ lqState = "running"
    /\ LET n == Len(stack)
           top == stack[n] IN
        /\ top.i = Len(top.linked)
        /\ IF n = 1
           THEN /\ lqResult' = top.linked
                /\ lqState' = "done"
                /\ stack' = <<>>
           ELSE /\ stack' = [SubSeq(stack, 1, n - 1) EXCEPT ![n - 1] =
                                [@ EXCEPT !.linked = SetAddAll(@, top.linked),
                                          !.i = @ + 1]]
                /\ UNCHANGED <<lqResult, lqState>>
    /\ UNCHANGED <<operations, activeEditIndex, lqRoot>>
    /\ UNCHANGED <<regVars, crudVars, shareVars, asVars>>

(* ------------------------------------------------------------------ *)
(* Workbook registry                                                    *)
(* ------------------------------------------------------------------ *)
\* Values useWorkbook is called with: numbers and strings.
NumName(n) == [type |-> "number", num |-> n, str |-> ""]
StrName(t) == [type |-> "string", num |-> 0, str |-> t]
NameInputs == {NumName(1), StrName("1"), StrName("wb")}

\* String(name)
String(name) == IF name.type = "number" THEN ToString(name.num) ELSE name.str

Keys == {String(n) : n \in NameInputs}

\* The workbook whose document the CRUD, share and auto-save parts are about.
WbName == "1"

RegistryAlwaysMade(key) == [workbooks EXCEPT ![key] = nextInstance]

\* if (existingWorkbook) return existingWorkbook
\* workbook = makeWorkbook(name); workbooks.set(name, workbook)
RegistryAfter(key) ==
    IF workbooks[key] # 0 THEN workbooks
    ELSE [workbooks EXCEPT ![key] = nextInstance]

useWorkbook(name) ==
    LET key == String(name) IN
    /\ workbooks' = RegistryAfter(key)
    /\ IF workbooks[key] # 0
       THEN UNCHANGED <<nextInstance, makeCount>>
       ELSE /\ nextInstance' = nextInstance + 1
            /\ makeCount' = [makeCount EXCEPT ![key] = @ + 1]
    /\ returned' = [returned EXCEPT ![key] = @ \cup {workbooks'[key]}]
    /\ lastUse' = [key |-> key, existing |-> workbooks[key] # 0]
    /\ UNCHANGED <<lqVars, crudVars, shareVars, asVars>>

WorkbookInUse == workbooks[WbName] # 0

(* ------------------------------------------------------------------ *)
(* CRUD orchestration                                                   *)
(* ------------------------------------------------------------------ *)
Kinds == {"query", "chart", "dashboard"}
Names == 1..MaxEntities

\* The names of a kind a removal can be asked for: of the list's items, of
\* documents still being inserted and of documents already being deleted.
Removable(kind) ==
    {doc[kind][i].name : i \in 1..Len(doc[kind])}
        \cup {p.name : p \in {x \in pendingInserts : x.kind = kind}}
        \cup {p.name : p \in {x \in pendingDeletes : x.kind = kind}}

\* `/workbook/${workbook.name}`, `/workbook/${workbook.name}/${type}/${name}`
\* and '/workbook'
RootPath == [at |-> "workbook", type |-> "none", name |-> 0]
TabPath(type, name) == [at |-> "tab", type |-> type, name |-> name]
ListPath == [at |-> "list", type |-> "none", name |-> 0]

\* rows.findIndex(row => row.name === name), 0-based, -1 when absent
FindIndex(rows, name) ==
    IF \E i \in 1..Len(rows) : rows[i].name = name
    THEN (CHOOSE i \in 1..Len(rows) :
            /\ rows[i].name = name
            /\ \A j \in 1..(i - 1) : rows[j].name # name) - 1
    ELSE -1

\* rows.splice(idx, 1) with a 0-based idx
Splice1(rows, idx) ==
    IF idx < Len(rows)
    THEN SubSeq(rows, 1, idx) \o SubSeq(rows, idx + 2, Len(rows))
    ELSE rows

AddEntityOptimistic(kind) ==
    /\ WorkbookInUse
    /\ nextName <= MaxEntities
    /\ pendingInserts' = pendingInserts \cup
           {[kind |-> kind, name |-> nextName, title |-> Len(doc[kind]) + 1]}
    /\ nextName' = nextName + 1
    /\ doc' = [doc EXCEPT ![kind] =
                  Append(@, [name |-> nextName, title |-> Len(doc[kind]) + 1])]
    /\ UNCHANGED <<route, nextRequest, dialogs, confirmed, pendingDeletes>>
    /\ UNCHANGED stored
    /\ UNCHANGED <<lqVars, regVars, shareVars, asVars>>

\* addQuery / addChart / addDashboard: build the new document and start insert()
AddEntity(kind) ==
    /\ WorkbookInUse
    /\ nextName <= MaxEntities
    /\ pendingInserts' = pendingInserts \cup
           {[kind |-> kind, name |-> nextName, title |-> Len(doc[kind]) + 1]}
    /\ nextName' = nextName + 1
    /\ UNCHANGED <<doc, route, nextRequest, dialogs, confirmed, pendingDeletes>>
    /\ UNCHANGED stored
    /\ UNCHANGED <<lqVars, regVars, shareVars, asVars>>

addQuery == AddEntity("query")
addChart == AddEntity("chart")
addDashboard == AddEntity("dashboard")

\* insert().then(() => { list.push({name, title}); setActiveTab(kind, name) })
InsertDone(p) ==
    /\ p \in pendingInserts
    /\ pendingInserts' = pendingInserts \ {p}
    /\ doc' = [doc EXCEPT ![p.kind] = Append(@, [name |-> p.name, title |-> p.title])]
    /\ route' = TabPath(p.kind, p.name)
    /\ stored' = stored \cup {[kind |-> p.kind, name |-> p.name]}
    /\ UNCHANGED <<nextName, nextRequest, dialogs, confirmed, pendingDeletes>>
    /\ UNCHANGED <<lqVars, regVars, shareVars, asVars>>

\* insert() rejects: no handler is attached
InsertFails(p) ==
    /\ p \in pendingInserts
    /\ pendingInserts' = pendingInserts \ {p}
    /\ UNCHANGED <<doc, route, nextName, nextRequest, dialogs, confirmed, pendingDeletes>>
    /\ UNCHANGED stored
    /\ UNCHANGED <<lqVars, regVars, shareVars, asVars>>

RouteStaysOnRemoved(kind, idx) == TabPath(kind, doc[kind][idx + 1].name)

\* The route _remove navigates to: the item before the removed one, or the
\* workbook root when the removed one is the first.
RouteAfterRemove(kind, idx) ==
    IF idx - 1 >= 0 THEN TabPath(kind, doc[kind][idx].name) ELSE RootPath

\* _remove(), the onSuccess of removeQuery / removeChart / removeDashboard
Remove(d) ==
    LET idx == FindIndex(doc[d.kind], d.name) IN
    IF idx = -1
    THEN UNCHANGED <<route, pendingDeletes>>
    ELSE /\ pendingDeletes' = pendingDeletes \cup
                {[req |-> d.req, kind |-> d.kind, name |-> d.name, idx |-> idx]}
         /\ route' = RouteAfterRemove(d.kind, idx)

\* the onSuccess of deleteWorkbook: workbook.delete()
RemoveWorkbook(d) ==
    /\ pendingDeletes' = pendingDeletes \cup
           {[req |-> d.req, kind |-> d.kind, name |-> d.name, idx |-> -1]}
    /\ UNCHANGED route

OpenDialogRemovesAtOnce(kind, name) ==
    /\ WorkbookInUse
    /\ nextRequest <= MaxRequests
    /\ nextRequest' = nextRequest + 1
    /\ LET d == [req |-> nextRequest, kind |-> kind, name |-> name]
       IN IF kind = "workbook" THEN RemoveWorkbook(d) ELSE Remove(d)
    /\ UNCHANGED <<doc, nextName, pendingInserts, dialogs, confirmed>>
    /\ UNCHANGED stored
    /\ UNCHANGED <<lqVars, regVars, shareVars, asVars>>

\* confirmDialog({ ..., onSuccess })
OpenDialog(kind, name) ==
    /\ WorkbookInUse
    /\ nextRequest <= MaxRequests
    /\ dialogs' = dialogs \cup {[req |-> nextRequest, kind |-> kind, name |-> name]}
    /\ nextRequest' = nextRequest + 1
    /\ UNCHANGED <<doc, route, nextName, pendingInserts, confirmed, pendingDeletes>>
    /\ UNCHANGED stored
    /\ UNCHANGED <<lqVars, regVars, shareVars, asVars>>

removeQuery(name) == OpenDialog("query", name)
removeChart(name) == OpenDialog("chart", name)
removeDashboard(name) == OpenDialog("dashboard", name)
deleteWorkbook == OpenDialog("workbook", 0)

\* The user accepts the dialog: onSuccess fires.
DialogConfirmed(d) ==
    /\ d \in dialogs
    /\ dialogs' = dialogs \ {d}
    /\ confirmed' = confirmed \cup {d.req}
    /\ IF d.kind = "workbook" THEN RemoveWorkbook(d) ELSE Remove(d)
    /\ UNCHANGED <<doc, nextName, pendingInserts, nextRequest>>
    /\ UNCHANGED stored
    /\ UNCHANGED <<lqVars, regVars, shareVars, asVars>>

\* The user dismisses the dialog: nothing is called.
DialogDeclined(d) ==
    /\ d \in dialogs
    /\ dialogs' = dialogs \ {d}
    /\ UNCHANGED <<doc, route, nextName, pendingInserts, nextRequest, confirmed,
                   pendingDeletes>>
    /\ UNCHANGED stored
    /\ UNCHANGED <<lqVars, regVars, shareVars, asVars>>

\* delete().then(() => list.splice(idx, 1)) with the index found by _remove;
\* workbook.delete().then(() => router.replace('/workbook'))
DeleteDone(p) ==
    /\ p \in pendingDeletes
    /\ pendingDeletes' = pendingDeletes \ {p}
    /\ IF p.kind = "workbook"
       THEN /\ route' = ListPath
            /\ UNCHANGED doc
       ELSE /\ doc' = [doc EXCEPT ![p.kind] = Splice1(@, p.idx)]
            /\ UNCHANGED route
    /\ stored' = stored \ {[kind |-> p.kind, name |-> p.name]}
    /\ UNCHANGED <<nextName, pendingInserts, nextRequest, dialogs, confirmed>>
    /\ UNCHANGED <<lqVars, regVars, shareVars, asVars>>

\* delete() rejects: no handler is attached
DeleteFails(p) ==
    /\ p \in pendingDeletes
    /\ pendingDeletes' = pendingDeletes \ {p}
    /\ UNCHANGED <<doc, route, nextName, pendingInserts, nextRequest, dialogs, confirmed>>
    /\ UNCHANGED stored
    /\ UNCHANGED <<lqVars, regVars, shareVars, asVars>>

(* ------------------------------------------------------------------ *)
(* Share permissions                                                    *)
(* ------------------------------------------------------------------ *)
Users == {"a@x", "b@x"}
Roles == {"view", "edit"}

\* access -> the flags updateSharePermissions sends
ReadFlag(access) == access = "view"
WriteFlag(access) == access = "edit"

\* p.read ? (p.write ? 'edit' : 'view') : undefined
AccessOf(read, write) ==
    IF read THEN (IF write THEN "edit" ELSE "view") ELSE "undefined"

UserPermissionArgs ==
    UNION {[1..k -> [email : Users, access : Roles]] : k \in 1..MaxPerms}

\* args.user_permissions.map(p => ({user, read, write}))
SentPermissions(perms) ==
    [i \in 1..Len(perms) |->
        [user |-> perms[i].email,
         read |-> ReadFlag(perms[i].access),
         write |-> WriteFlag(perms[i].access)]]

updateSharePermissions(args) ==
    /\ WorkbookInUse
    /\ sharePromise # "pending"
    /\ shareArgs' = args
    /\ shareSent' = SentPermissions(args.user_permissions)
    /\ sharePromise' = "pending"
    /\ shareOutcome' = "none"
    /\ shareToasts' = 0
    /\ UNCHANGED shareFetched
    /\ UNCHANGED <<lqVars, regVars, crudVars, asVars>>

ShareCallSucceeds ==
    /\ sharePromise = "pending"
    /\ sharePromise' = "resolved"
    /\ shareOutcome' = "ok"
    /\ UNCHANGED <<shareArgs, shareSent, shareToasts, shareFetched>>
    /\ UNCHANGED <<lqVars, regVars, crudVars, asVars>>

NoCatch == [toasts |-> shareToasts, promise |-> "rejected"]

\* What the promise chain call(...).catch(showErrorToast) does with a rejection:
\* the handler runs once and the chained promise resolves with its result.
CatchShowErrorToast == [toasts |-> shareToasts + 1, promise |-> "resolved"]

ShareCallFails ==
    /\ sharePromise = "pending"
    /\ shareOutcome' = "error"
    /\ sharePromise' = CatchShowErrorToast.promise
    /\ shareToasts' = CatchShowErrorToast.toasts
    /\ UNCHANGED <<shareArgs, shareSent, shareFetched>>
    /\ UNCHANGED <<lqVars, regVars, crudVars, asVars>>

\* The rows the backend answers get_share_permissions with.
BackendPermissions == [user : Users, read : BOOLEAN, write : BOOLEAN]

\* getSharePermissions, once its call has answered with `permissions`
getSharePermissions(permissions) ==
    /\ WorkbookInUse
    /\ shareFetched' =
          [i \in 1..Len(permissions) |->
              [email |-> permissions[i].user,
               access |-> AccessOf(permissions[i].read, permissions[i].write)]]
    /\ UNCHANGED <<shareArgs, shareSent, sharePromise, shareOutcome, shareToasts>>
    /\ UNCHANGED <<lqVars, regVars, crudVars, asVars>>

(* ------------------------------------------------------------------ *)
(* Auto-save controller                                                 *)
(* ------------------------------------------------------------------ *)
\* The source the debounced watcher watches: workbook.isdirty && !_pauseAutoSave.value
ShouldSave(dirty, paused) == dirty /\ ~paused

TimerOf(value) == IF value THEN "true" ELSE "false"

TimerOnCreateNotImmediate(value) == "none"

\* { immediate: true, debounce: 2000 }: creating the watcher runs the callback
\* for the current value at once, through the debounce filter.
TimerOnCreate(value) == TimerOf(value)

\* The job of the live watcher: when its source differs from the value it saw
\* last, the debounce filter drops the pending timer and starts one that
\* carries the new value.
WatcherJob(value) ==
    /\ timer' = IF stopAutoSaveWatcher /\ value # watched THEN TimerOf(value) ELSE timer
    /\ watched' = IF stopAutoSaveWatcher THEN value ELSE watched

\* Watcher jobs run before any timer or user event: nothing else happens while
\* a change of enable_auto_save waits for its watcher.
Flushed == enable_auto_save = seenAutoSave

\* attempted, once the watchers have run for the new values.
AttemptedAfter(enabled, dirty, paused) ==
    attempted /\ enabled /\ ShouldSave(dirty, paused)

\* Any change of the document other than the auto-save flag.
Edit ==
    /\ WorkbookInUse
    /\ Flushed
    /\ isdirty' = TRUE
    /\ WatcherJob(ShouldSave(TRUE, pauseAutoSave))
    /\ savesStale' = savesStale + savesFresh
    /\ savesFresh' = 0
    /\ attempted' = AttemptedAfter(enable_auto_save, TRUE, pauseAutoSave)
    /\ UNCHANGED <<enable_auto_save, seenAutoSave, pauseAutoSave, stopAutoSaveWatcher,
                   orphanTimers, lastAutoSave, cycle, watchers>>
    /\ UNCHANGED <<lqVars, regVars, crudVars, shareVars>>

\* workbook._pauseAutoSave = b
SetPause(b) ==
    /\ WorkbookInUse
    /\ Flushed
    /\ b # pauseAutoSave
    /\ pauseAutoSave' = b
    /\ WatcherJob(ShouldSave(isdirty, b))
    /\ attempted' = AttemptedAfter(enable_auto_save, isdirty, b)
    /\ UNCHANGED <<enable_auto_save, seenAutoSave, isdirty, stopAutoSaveWatcher,
                   orphanTimers, savesFresh, savesStale, lastAutoSave, cycle, watchers>>
    /\ UNCHANGED <<lqVars, regVars, crudVars, shareVars>>

\* workbook.doc.enable_auto_save changes (set by the user or by a loaded
\* document); the document may or may not match its persisted snapshot after.
\* The watcher of the flag runs first (AutoSaveFlagChanged); when the flag is
\* back at the value that watcher saw, only the live auto-save watcher runs.
ToggleAutoSave ==
    /\ WorkbookInUse
    /\ enable_auto_save' = ~enable_auto_save
    /\ (Flushed /\ stopAutoSaveWatcher /\ timer # "none")
          => Len(orphanTimers) < MaxOrphans
    /\ \E dirty \in BOOLEAN :
        /\ isdirty' = dirty
        /\ IF enable_auto_save' = seenAutoSave
           THEN /\ WatcherJob(ShouldSave(dirty, pauseAutoSave))
                /\ attempted' = AttemptedAfter(enable_auto_save', dirty, pauseAutoSave)
           ELSE UNCHANGED <<timer, watched, attempted>>
        /\ IF dirty
           THEN /\ savesStale' = savesStale + savesFresh
                /\ savesFresh' = 0
           ELSE UNCHANGED <<savesFresh, savesStale>>
    /\ UNCHANGED <<seenAutoSave, pauseAutoSave, stopAutoSaveWatcher, orphanTimers,
                   lastAutoSave, cycle, watchers>>
    /\ UNCHANGED <<lqVars, regVars, crudVars, shareVars>>

WatchersAfterForgetting(n) == n

\* stopAutoSaveWatcher(): the watcher behind the handle is live no longer.
WatchersAfterStop(n) == n - 1

\* The callback of wheneverChanges(() => workbook.doc.enable_auto_save, ...)
AutoSaveFlagChanged ==
    /\ enable_auto_save # seenAutoSave
    /\ seenAutoSave' = enable_auto_save
    /\ IF ~enable_auto_save /\ stopAutoSaveWatcher
       THEN \* stopAutoSaveWatcher(); stopAutoSaveWatcher = null
            /\ stopAutoSaveWatcher' = FALSE
            /\ orphanTimers' = IF timer = "none" THEN orphanTimers
                               ELSE Append(orphanTimers, timer)
            /\ timer' = "none"
            /\ attempted' = FALSE
            /\ cycle' = "stopped"
            /\ watchers' = WatchersAfterStop(watchers)
            /\ UNCHANGED watched
       ELSE IF enable_auto_save /\ ~stopAutoSaveWatcher
       THEN \* stopAutoSaveWatcher = watchDebounced(...)
            /\ stopAutoSaveWatcher' = TRUE
            /\ timer' = TimerOnCreate(ShouldSave(isdirty, pauseAutoSave))
            /\ watched' = ShouldSave(isdirty, pauseAutoSave)
            /\ cycle' = IF cycle = "stopped" THEN "reenabled" ELSE cycle
            /\ watchers' = watchers + 1
            /\ attempted' = FALSE
            /\ UNCHANGED orphanTimers
       ELSE /\ WatcherJob(ShouldSave(isdirty, pauseAutoSave))
            /\ UNCHANGED <<stopAutoSaveWatcher, orphanTimers, attempted, cycle, watchers>>
    /\ UNCHANGED <<enable_auto_save, isdirty, pauseAutoSave, savesFresh, savesStale,
                   lastAutoSave>>
    /\ UNCHANGED <<lqVars, regVars, crudVars, shareVars>>

\* (shouldSave) => shouldSave && workbook.save(), run by a debounce timer with
\* the value its watcher passed when the timer was started.
DebouncedCallback(shouldSave) ==
    IF shouldSave = "true"
    THEN /\ savesFresh + savesStale < MaxInFlight
         /\ savesFresh' = savesFresh + 1
         /\ lastAutoSave' = [called |-> TRUE,
                             enabled |-> enable_auto_save,
                             dirty |-> isdirty,
                             paused |-> pauseAutoSave,
                             inflight |-> savesFresh + savesStale]
         /\ attempted' = (enable_auto_save /\ ShouldSave(isdirty, pauseAutoSave))
    ELSE UNCHANGED <<savesFresh, lastAutoSave, attempted>>

\* The debounce timer of the live watcher expires.
TimerFires ==
    /\ Flushed
    /\ timer # "none"
    /\ orphanTimers = <<>>
    /\ timer' = "none"
    /\ DebouncedCallback(timer)
    /\ UNCHANGED <<enable_auto_save, seenAutoSave, isdirty, pauseAutoSave,
                   stopAutoSaveWatcher, watched, orphanTimers, savesStale, cycle, watchers>>
    /\ UNCHANGED <<lqVars, regVars, crudVars, shareVars>>

\* A timer started before its watcher was stopped expires: stopping the watcher
\* does not clear the timer of its debounce filter.
OrphanTimerFires ==
    /\ Flushed
    /\ orphanTimers # <<>>
    /\ orphanTimers' = Tail(orphanTimers)
    /\ DebouncedCallback(Head(orphanTimers))
    /\ UNCHANGED <<enable_auto_save, seenAutoSave, isdirty, pauseAutoSave,
                   stopAutoSaveWatcher, timer, watched, savesStale, cycle, watchers>>
    /\ UNCHANGED <<lqVars, regVars, crudVars, shareVars>>

\* A save() call completes: the persisted snapshot is the document it sent.
SaveSucceeds ==
    /\ Flushed
    /\ savesFresh + savesStale > 0
    /\ \/ /\ savesFresh > 0
          /\ savesFresh' = savesFresh - 1
          /\ isdirty' = FALSE
          /\ WatcherJob(FALSE)
          /\ attempted' = FALSE
          /\ UNCHANGED savesStale
       \/ /\ savesStale > 0
          /\ savesStale' = savesStale - 1
          /\ UNCHANGED <<savesFresh, isdirty, timer, watched, attempted>>
    /\ UNCHANGED <<enable_auto_save, seenAutoSave, pauseAutoSave, stopAutoSaveWatcher,
                   orphanTimers, lastAutoSave, cycle, watchers>>
    /\ UNCHANGED <<lqVars, regVars, crudVars, shareVars>>

\* A save() call fails: the document stays as dirty as it was.
SaveFails ==
    /\ Flushed
    /\ savesFresh + savesStale > 0
    /\ \/ /\ savesFresh > 0
          /\ savesFresh' = savesFresh - 1
          /\ UNCHANGED savesStale
       \/ /\ savesStale > 0
          /\ savesStale' = savesStale - 1
          /\ UNCHANGED savesFresh
    /\ UNCHANGED <<enable_auto_save, seenAutoSave, isdirty, pauseAutoSave,
                   stopAutoSaveWatcher, timer, watched, orphanTimers, lastAutoSave,
                   attempted, cycle, watchers>>
    /\ UNCHANGED <<lqVars, regVars, crudVars, shareVars>>

(* ------------------------------------------------------------------ *)
(* Properties                                                           *)
(* ------------------------------------------------------------------ *)
\* The reference edges of q: the queries its effective operations use as table.
Edges(q) ==
    {EffectiveOperations(q)[i].query_name :
        i \in {j \in 1..Len(EffectiveOperations(q)) : IsQueryRef(EffectiveOperations(q)[j])}}

RECURSIVE Closure(_)
Closure(S) ==
    LET T == S \cup UNION {Edges(x) : x \in S}
    IN IF T = S THEN S ELSE Closure(T)

\* The queries reachable from q by one or more reference edges.
Reachable(q) == Closure(Edges(q))

\* C1: getLinkedQueries(q) terminates on every finite reference graph, cyclic
\* ones included: the recursion never runs out of stack by re-entering a
\* query it is already resolving.
C1_Terminates == lqState # "overflow"

\* C2: the list getLinkedQueries(q) returns holds exactly the queries
\* reachable from q by one or more reference edges, each exactly once.
C2_ReturnsReachableOnce ==
    lqState = "done" =>
        /\ {lqResult[i] : i \in 1..Len(lqResult)} = Reachable(lqRoot)
        /\ \A i, j \in 1..Len(lqResult) : lqResult[i] = lqResult[j] => i = j

\* A call has returned at least two queries, one of them reached only through
\* another query.
C2_Witness ==
    /\ lqState = "done"
    /\ \E x \in Reachable(lqRoot) : x \notin Edges(lqRoot)
    /\ Len(lqResult) >= 2

\* C3: the registry holds at most one instance per identifier: makeWorkbook
\* runs at most once per String(name), every call for one key returns the
\* same object, and a stored entry is never replaced or removed.
C3_SingletonPerKey ==
    [][\A k \in Keys :
          /\ makeCount'[k] <= 1
          /\ Cardinality(returned'[k]) <= 1
          /\ workbooks[k] # 0 => workbooks'[k] = workbooks[k]]_vars

\* The workbook was deleted and then requested again, and the Map still had it.
C3_Witness ==
    /\ lastUse.key = WbName
    /\ lastUse.existing
    /\ route = ListPath
    /\ makeCount[WbName] = 1

\* C4: while enable_auto_save is false the auto-save controller starts no
\* workbook.save().
C4_NoSaveWhileDisabled == lastAutoSave.called => lastAutoSave.enabled

\* The workbook has to be saved: auto-save is on and the change of the flag has
\* been handled, the workbook is dirty and not paused.
NeedsSave == enable_auto_save /\ Flushed /\ ShouldSave(isdirty, pauseAutoSave)

\* C5: after auto-save has been disabled and enabled again, a workbook that is
\* dirty and not paused gets a workbook.save() from the auto-save controller
\* (unless it stops being dirty, unpaused and enabled first).
C5_ReenableResumes ==
    (cycle = "reenabled" /\ NeedsSave) ~> (attempted \/ ~NeedsSave)

\* Auto-save was switched off and on again and has then called save().
C5_Witness ==
    /\ cycle = "reenabled"
    /\ NeedsSave
    /\ attempted
    /\ lastAutoSave.called

\* C6: auto-save calls workbook.save() only when, as the debounced callback
\* runs, the workbook is dirty and _pauseAutoSave is false.
C6_SaveOnlyDirtyUnpaused ==
    lastAutoSave.called => lastAutoSave.dirty /\ ~lastAutoSave.paused

\* C7: no remote delete is issued, no list entry is removed and no navigation
\* happens for a removal or a workbook deletion unless the onSuccess of its
\* confirmation dialog has fired; a declined or unanswered dialog changes
\* neither the lists nor the route.
C7_ConfirmationGated ==
    [][/\ \A p \in pendingDeletes' \ pendingDeletes :
            /\ p.req \in confirmed'
            /\ \E d \in dialogs : d.req = p.req /\ d.kind = p.kind /\ d.name = p.name
       /\ \A k \in Kinds :
            Len(doc'[k]) < Len(doc[k]) =>
                \E p \in pendingDeletes : p.kind = k /\ p.req \in confirmed
       /\ route' # route =>
            \/ \E p \in pendingInserts : route' = TabPath(p.kind, p.name)
            \/ \E d \in dialogs : d.req \in confirmed' \ confirmed
            \/ \E p \in pendingDeletes :
                  p.kind = "workbook" /\ p.req \in confirmed /\ route' = ListPath
       /\ confirmed' = confirmed =>
            /\ pendingDeletes' \subseteq pendingDeletes
            /\ (dialogs' # dialogs => doc' = doc /\ route' = route)]_vars

\* One removal was confirmed and its delete is in flight while the dialog of
\* another removal of an existing item is still open.
C7_Witness ==
    /\ \E p \in pendingDeletes : p.kind \in Kinds
    /\ \E d \in dialogs : d.kind \in Kinds /\ FindIndex(doc[d.kind], d.name) # -1

\* C8: a confirmed removal of the only item of its list navigates to
\* /workbook/<workbook name>, not to a tab.
C8_LastItemGoesToRoot ==
    [][\A d \in dialogs :
          (/\ d.req \in confirmed' \ confirmed
           /\ d.kind \in Kinds
           /\ Len(doc[d.kind]) = 1
           /\ doc[d.kind][1].name = d.name) => route' = RootPath]_vars

\* The removal of the only item of a list was confirmed, its delete is in
\* flight and the route is the workbook root.
C8_Witness ==
    \E p \in pendingDeletes :
        /\ p.kind \in Kinds
        /\ Len(doc[p.kind]) = 1
        /\ doc[p.kind][1].name = p.name
        /\ p.req \in confirmed
        /\ route = RootPath

\* C9: for each role in {view, edit}, the flags updateSharePermissions sends
\* are mapped back to the same role by getSharePermissions.
C9_RolesRoundTrip ==
    \A i \in 1..Len(shareSent) :
        AccessOf(shareSent[i].read, shareSent[i].write)
            = shareArgs.user_permissions[i].access

\* C10: when the remote call of updateSharePermissions fails, showErrorToast
\* runs exactly once, the returned promise resolves, and the workbook document
\* and the registry are left as they were.
C10_FailureToastedOnce ==
    [][/\ shareOutcome' = "error" => shareToasts' = 1 /\ sharePromise' = "resolved"
       /\ (shareOutcome # "error" /\ shareOutcome' = "error") =>
            /\ doc' = doc
            /\ workbooks' = workbooks
            /\ route' = route]_vars

\* The call failed for a workbook that has a query in its document.
C10_Witness ==
    /\ shareOutcome = "error"
    /\ shareToasts = 1
    /\ sharePromise = "resolved"
    /\ doc["query"] # <<>>
    /\ workbooks[WbName] # 0

\* C11: once a change of enable_auto_save has been handled, a debounced
\* watcher exists exactly when enable_auto_save is true (and the controller
\* holds its stop handle exactly then), and there is never more than one
\* watcher, whatever the sequence of toggles.
C11_WatcherIffEnabled ==
    /\ watchers <= 1
    /\ Flushed => /\ (watchers >= 1) <=> enable_auto_save
                  /\ stopAutoSaveWatcher <=> enable_auto_save

\* Auto-save was enabled, disabled and enabled again, and one watcher is live.
C11_Witness ==
    /\ cycle = "reenabled"
    /\ Flushed
    /\ enable_auto_save
    /\ watchers = 1

\* C12: while auto-save is enabled, a workbook that is dirty and not paused
\* and has no save() of its current document in flight gets such a save()
\* from the auto-save controller (unless it stops being dirty, unpaused and
\* enabled first), also after a failed save and after edits made while a
\* save was in flight.
C12_DirtyEventuallySaved ==
    (NeedsSave /\ savesFresh = 0) ~> (savesFresh > 0 \/ ~NeedsSave)

\* C15: the auto-save controller calls workbook.save() only when no save it
\* started earlier is still in flight.
C15_SavesSerialized == lastAutoSave.called => lastAutoSave.inflight = 0

\* The names a list refers to.
NamesOf(rows) == {rows[i].name : i \in 1..Len(rows)}

\* The names of the documents of a kind the remote store holds.
StoredNames(kind) == {e.name : e \in {x \in stored : x.kind = kind}}

\* C13: a confirmed removal of an item of a list that has another item
\* navigates to a sibling of the same type that is in the list, not to the
\* workbook root, whichever position the removed item has.
C13_RedirectsToSibling ==
    [][\A d \in dialogs :
          (/\ d.req \in confirmed' \ confirmed
           /\ d.kind \in Kinds
           /\ d.name \in NamesOf(doc[d.kind])
           /\ Len(doc[d.kind]) >= 2)
          => \E n \in NamesOf(doc[d.kind]) \ {d.name} :
                 route' = TabPath(d.kind, n)]_vars

\* C14: once every delete of a list has completed, the list refers to exactly
\* the entities of its kind that were not deleted.
C14_ListMatchesStore ==
    \A k \in Kinds :
        (\A p \in pendingDeletes : p.kind # k) => NamesOf(doc[k]) = StoredNames(k)

\* C16: starting an insert changes neither list nor route; when the insert
\* completes exactly one reference to the new entity is appended at the end
\* of its list and the route is set to its tab; when it fails neither the
\* lists nor the route change; a list grows in no other way.
C16_ListChangesOnInsertDone ==
    [][/\ pendingInserts' \ pendingInserts # {} => doc' = doc /\ route' = route
       /\ \A p \in pendingInserts \ pendingInserts' :
            IF [kind |-> p.kind, name |-> p.name] \in stored'
            THEN /\ doc' = [doc EXCEPT ![p.kind] =
                               Append(@, [name |-> p.name, title |-> p.title])]
                 /\ route' = TabPath(p.kind, p.name)
            ELSE doc' = doc /\ route' = route
       /\ \A k \in Kinds :
            (doc'[k] # doc[k] /\ Len(doc'[k]) >= Len(doc[k])) =>
                \E p \in pendingInserts \ pendingInserts' : p.kind = k]_vars

\* Two inserts were started; one failed and one completed: its reference is
\* the only one of its list and the route is its tab.
C16_Witness ==
    /\ nextName = 3
    /\ pendingInserts = {}
    /\ confirmed = {}
    /\ Cardinality(stored) = 1
    /\ \E k \in Kinds :
          /\ Len(doc[k]) = 1
          /\ route = TabPath(k, doc[k][1].name)

\* C17: a reference leaves a list only in the step in which the remote delete
\* of its entity completes successfully; confirming a removal leaves the
\* lists as they are, and for a name that is not in the list it issues no
\* delete and does not navigate.
C17_RemovedOnlyAfterDelete ==
    [][/\ \A k \in Kinds : \A n \in NamesOf(doc[k]) \ NamesOf(doc'[k]) :
            \E p \in pendingDeletes \ pendingDeletes' :
                /\ p.kind = k
                /\ p.name = n
                /\ n \notin StoredNames(k)'
       /\ \A d \in dialogs :
            (d.req \in confirmed' \ confirmed /\ d.kind \in Kinds) =>
                /\ doc' = doc
                /\ d.name \notin NamesOf(doc[d.kind]) =>
                      pendingDeletes' = pendingDeletes /\ route' = route]_vars

\* The positions (from 1) of the stored operations of q that are before its
\* activeEditIndex, or all when it is -1, and refer to a query as table.
ContributingPositions(q) ==
    {j \in 1..Len(operations[q]) :
        /\ activeEditIndex[q] = -1 \/ j <= activeEditIndex[q]
        /\ IsQueryRef(operations[q][j])}

\* The queries those operations refer to, and the first position of each.
DirectRefs(q) == {operations[q][j].query_name : j \in ContributingPositions(q)}
FirstRef(q, x) ==
    CHOOSE j \in ContributingPositions(q) :
        /\ operations[q][j].query_name = x
        /\ \A k \in ContributingPositions(q) :
              operations[q][k].query_name = x => j <= k

\* C18: the set a call getLinkedQueries(q) starts from holds exactly the
\* queries referred to by the operations of q at positions 0..i-1 when its
\* activeEditIndex is i >= 0 (none for i = 0) and by all of them when it is
\* -1, for every query visited; the stored operation lists and edit indexes
\* are left as they were.
C18_EffectiveOperationsOnly ==
    [][/\ \A k \in 1..Len(stack') :
            stack'[k].i = 0 =>
                {stack'[k].linked[j] : j \in 1..Len(stack'[k].linked)}
                    = DirectRefs(stack'[k].q)
       /\ operations' = operations
       /\ activeEditIndex' = activeEditIndex]_vars

\* A call is visiting a query with two query references that is being edited
\* at its second operation: only the first one is in its set.
C18_Witness ==
    /\ lqState = "running"
    /\ \E k \in 1..Len(stack) :
        LET q == stack[k].q IN
        /\ stack[k].i = 0
        /\ activeEditIndex[q] = 1
        /\ Len(operations[q]) = 2
        /\ IsQueryRef(operations[q][1])
        /\ IsQueryRef(operations[q][2])
        /\ operations[q][1].query_name # operations[q][2].query_name
        /\ stack[k].linked = <<operations[q][1].query_name>>

\* C19: the returned list starts with the queries q refers to directly, in
\* the order of their first referencing operation; the queries reached only
\* through other queries come after all of them.
C19_InsertionOrder ==
    lqState = "done" =>
        LET n == Cardinality(DirectRefs(lqRoot)) IN
        /\ n <= Len(lqResult)
        /\ \A i \in 1..Len(lqResult) : (i <= n) <=> (lqResult[i] \in DirectRefs(lqRoot))
        /\ \A i, j \in 1..n :
              i < j => FirstRef(lqRoot, lqResult[i]) < FirstRef(lqRoot, lqResult[j])

\* A call has returned two direct references, the first operation referring
\* to the query with the larger name.
C19_Witness ==
    /\ lqState = "done"
    /\ Len(lqResult) = 2
    /\ lqResult[1] > lqResult[2]
    /\ DirectRefs(lqRoot) = {lqResult[1], lqResult[2]}

(* ------------------------------------------------------------------ *)
(* Specifications                                                       *)
(* ------------------------------------------------------------------ *)
LQIdle ==
    /\ operations = [q \in Queries |-> <<>>]
    /\ activeEditIndex = [q \in Queries |-> -1]
    /\ stack = <<>>
    /\ lqState = "idle"
    /\ lqRoot = 0
    /\ lqResult = <<>>

RegistryEmpty ==
    /\ workbooks = [k \in Keys |-> 0]
    /\ nextInstance = 1
    /\ makeCount = [k \in Keys |-> 0]
    /\ returned = [k \in Keys |-> {}]
    /\ lastUse = [key |-> "", existing |-> FALSE]

\* initialDoc: queries: [], charts: [], dashboards: []
CrudInitial ==
    /\ doc = [k \in Kinds |-> <<>>]
    /\ route = RootPath
    /\ nextName = 1
    /\ pendingInserts = {}
    /\ nextRequest = 1
    /\ dialogs = {}
    /\ confirmed = {}
    /\ pendingDeletes = {}
    /\ stored = {}

ShareInitial ==
    /\ shareArgs = [user_permissions |-> <<>>, organization_access |-> "undefined"]
    /\ shareSent = <<>>
    /\ sharePromise = "none"
    /\ shareOutcome = "none"
    /\ shareToasts = 0
    /\ shareFetched = <<>>

AutoSaveInitial ==
    /\ enable_auto_save = FALSE
    /\ seenAutoSave = FALSE
    /\ isdirty = FALSE
    /\ pauseAutoSave = FALSE
    /\ stopAutoSaveWatcher = FALSE
    /\ watched = FALSE
    /\ timer = "none"
    /\ orphanTimers = <<>>
    /\ savesFresh = 0
    /\ savesStale = 0
    /\ lastAutoSave = [called |-> FALSE, enabled |-> FALSE, dirty |-> FALSE,
                       paused |-> FALSE, inflight |-> 0]
    /\ attempted = FALSE
    /\ cycle = "first"
    /\ watchers = 0

InitLQ ==
    /\ \E g \in QueryGraphs(NumQueries, MaxTotalOps) :
        /\ operations = [q \in Queries |-> g[q].operations]
        /\ activeEditIndex = [q \in Queries |-> g[q].activeEditIndex]
    /\ stack = <<>>
    /\ lqState = "idle"
    /\ lqRoot = 0
    /\ lqResult = <<>>
    /\ RegistryEmpty
    /\ CrudInitial
    /\ ShareInitial
    /\ AutoSaveInitial

NextLQ ==
    \/ \E q \in Queries : LQ_Call(q)
    \/ LQ_Recurse
    \/ LQ_Return

SpecLQ == InitLQ /\ [][NextLQ]_vars

\* Nothing has asked for a workbook yet.
InitRG ==
    /\ LQIdle
    /\ RegistryEmpty
    /\ CrudInitial
    /\ ShareInitial
    /\ AutoSaveInitial

\* The workbook WbName as makeWorkbook returns it to its first useWorkbook call.
InitWB ==
    /\ LQIdle
    /\ workbooks = [k \in Keys |-> IF k = WbName THEN 1 ELSE 0]
    /\ nextInstance = 2
    /\ makeCount = [k \in Keys |-> IF k = WbName THEN 1 ELSE 0]
    /\ returned = [k \in Keys |-> IF k = WbName THEN {1} ELSE {}]
    /\ lastUse = [key |-> WbName, existing |-> FALSE]
    /\ CrudInitial
    /\ ShareInitial
    /\ AutoSaveInitial

\* The workbook WbName as it is once its document has been loaded from the
\* store with up to MaxLoaded queries in it.
InitRM ==
    /\ LQIdle
    /\ workbooks = [k \in Keys |-> IF k = WbName THEN 1 ELSE 0]
    /\ nextInstance = 2
    /\ makeCount = [k \in Keys |-> IF k = WbName THEN 1 ELSE 0]
    /\ returned = [k \in Keys |-> IF k = WbName THEN {1} ELSE {}]
    /\ lastUse = [key |-> WbName, existing |-> FALSE]
    /\ \E n \in 0..MaxLoaded :
        /\ doc = [k \in Kinds |->
                    IF k = "query" THEN [i \in 1..n |-> [name |-> i, title |-> i]]
                    ELSE <<>>]
        /\ stored = {[kind |-> "query", name |-> i] : i \in 1..n}
        /\ nextName = n + 1
    /\ route = RootPath
    /\ pendingInserts = {}
    /\ nextRequest = 1
    /\ dialogs = {}
    /\ confirmed = {}
    /\ pendingDeletes = {}
    /\ ShareInitial
    /\ AutoSaveInitial

NextRegistry == \E name \in NameInputs : useWorkbook(name)

NextCrud ==
    \/ addQuery
    \/ addChart
    \/ addDashboard
    \/ \E p \in pendingInserts : InsertDone(p)
    \/ \E p \in pendingInserts : InsertFails(p)
    \/ \E name \in Removable("query") : removeQuery(name)
    \/ \E name \in Removable("chart") : removeChart(name)
    \/ \E name \in Removable("dashboard") : removeDashboard(name)
    \/ deleteWorkbook
    \/ \E d \in dialogs : DialogConfirmed(d)
    \/ \E d \in dialogs : DialogDeclined(d)
    \/ \E p \in pendingDeletes : DeleteDone(p)
    \/ \E p \in pendingDeletes : DeleteFails(p)

NextShare ==
    \/ \E perms \in UserPermissionArgs, org \in Roles \cup {"undefined"} :
          updateSharePermissions([user_permissions |-> perms,
                                  organization_access |-> org])
    \/ ShareCallSucceeds
    \/ ShareCallFails
    \/ \E row \in BackendPermissions : getSharePermissions(<<row>>)

\* The CRUD orchestration of one workbook.
NextWB == NextCrud
SpecWB == InitWB /\ [][NextWB]_vars

\* Removals from the query list of a loaded workbook.
NextRM ==
    \/ \E name \in Removable("query") : removeQuery(name)
    \/ \E d \in dialogs : DialogConfirmed(d)
    \/ \E d \in dialogs : DialogDeclined(d)
    \/ \E p \in pendingDeletes : DeleteDone(p)
    \/ \E p \in pendingDeletes : DeleteFails(p)
SpecRM == InitRM /\ [][NextRM]_vars

\* The registry, next to a workbook that gets queries and is deleted.
NextRG ==
    \/ NextRegistry
    \/ addQuery
    \/ \E p \in pendingInserts : InsertDone(p)
    \/ deleteWorkbook
    \/ \E d \in dialogs : DialogConfirmed(d)
    \/ \E d \in dialogs : DialogDeclined(d)
    \/ \E p \in pendingDeletes : DeleteDone(p)
SpecRG == InitRG /\ [][NextRG]_vars

\* The share-permission calls of one workbook.
NextSH ==
    \/ NextShare
    \/ addQuery
    \/ \E p \in pendingInserts : InsertDone(p)
SpecSH == InitWB /\ [][NextSH]_vars

NextAutoSave ==
    \/ Edit
    \/ \E b \in BOOLEAN : SetPause(b)
    \/ ToggleAutoSave
    \/ AutoSaveFlagChanged
    \/ TimerFires
    \/ OrphanTimerFires
    \/ SaveSucceeds
    \/ SaveFails

\* The auto-save controller of one workbook.
NextAS == NextAutoSave
SpecAS == InitWB /\ [][NextAS]_vars

\* Watcher jobs run, timers expire and remote calls answer.
FairSpecAS ==
    /\ SpecAS
    /\ WF_vars(AutoSaveFlagChanged)
    /\ WF_vars(TimerFires)
    /\ WF_vars(OrphanTimerFires)
    /\ WF_vars(SaveSucceeds \/ SaveFails)

====
